---- MODULE Spec2Model ----
(***************************************************************************)
(* Tiny Basic Datastore (tbd): the arena memory manager with its           *)
(* descriptor stack, value heap, garbage list, last-found cache and the    *)
(* pop / merge / fold / pack collector, as compiled with the options the   *)
(* source file switches on: null-terminated keys, null-terminated values,  *)
(* last-found cache, garbage list, packed structs.                         *)
(*                                                                         *)
(* Addresses are byte offsets from the start of the arena buffer; NULL is  *)
(* 0.  Pointers to descriptors are 1-based stack slot numbers, 0 is NULL.  *)
(* A slot keeps its bytes when the stack shrinks, as the memory does.      *)
(*                                                                         *)
(* Undefined behaviour (a null pointer handed to memcpy, strcmp or strlen, *)
(* an access past the end of the buffer) is reported by every operator in  *)
(* its "ub" field together with the state the call leaves when the access  *)
(* does not trap (a store through NULL is lost, a string read through      *)
(* NULL compares unequal to every key).  The actions then choose between   *)
(* that state and the trap.  A walk of a cyclic garbage list never ends:   *)
(* the operators report it in "hang".                                      *)
(***************************************************************************)
EXTENDS Integers, Sequences, FiniteSets, TLC

VARIABLES
  tbd,     \* the arena: header fields, descriptor slots and heap bytes
  halted,  \* "no", or how the process stopped: "crash" or "hang"
  ref,     \* the reference map the calls are replayed on: key -> bytes, <<>> if absent
  calls    \* the number of public calls made so far

vars == <<tbd, halted, ref, calls>>

-----------------------------------------------------------------------------
(* Sizes and error codes *)

NULL == 0

\* sizeof(struct tbd_struct): two size_t, one pointer, the garbage list (two
\* pointers), the stack (pointer, size_t) and the heap (pointer, size_t).
HeadSize == 72

\* sizeof(tbd_keyvalue_t), packed: heap (16), key (8), value (8), flags (1),
\* prev_garbage (8), next_garbage (8).
KvSize == 49

TBD_NO_ERROR == 0
TBD_ERROR == -1
TBD_ERROR_KEY_NOT_FOUND == -2
TBD_ERROR_KEY_EXISTS == -3
TBD_ERROR_BAD_SIZE == -4

\* Size in bytes of the buffer given to tbd_init: the header, three
\* descriptors and ten bytes of heap.
ArenaSize == 229

\* The hunk_size the test program gives to tbd_init.
HunkSize == 1

StackStart == HeadSize

\* Number of descriptors that fit between the header and the end of the arena.
NSlots == (ArenaSize - HeadSize) \div KvSize

\* Address one past stack slot i.
SlotEnd(i) == StackStart + i * KvSize

\* Keys the callers use: non-empty strings, written without the terminator.
Keys == {<<1>>, <<2>>, <<3>>}

\* Values the callers use.  Values are the C strings, with their terminator,
\* that keys are created with, of one and two bytes; UpdateValues adds a
\* second string of two bytes for Update; ByteValues adds a byte array without
\* a zero byte and one with a zero byte before its end.
Values == {<<0>>, <<1, 0>>}
UpdateValues == Values \cup {<<2, 0>>}
ByteValues == {<<1, 0>>, <<1>>, <<0, 1>>}

\* Largest value_size given to tbd_read.
MaxValueSize == 2

\* Longest sequence of public calls made on one arena.
MaxCalls == 5

\* The largest hunk a Create of the callers pushes: key, terminator, value.
MaxHunk ==
  CHOOSE n \in 1..ArenaSize :
    /\ \E k \in Keys, v \in Values : n = Len(k) + 1 + Len(v)
    /\ \A k \in Keys, v \in Values : Len(k) + 1 + Len(v) <= n

\* The heap bytes the model keeps.  Only Create pushes a hunk, so that after
\* MaxCalls calls heap.top is at least MaxCalls hunks below the end of the
\* buffer (tbd_empty leaves heap.top where it is, so that later hunks may lie
\* below the end of the last slot that fits), and never below the end of the
\* first slot.  One hunk behind the buffer is kept, where a string read that
\* leaves the buffer stops.
MemLo ==
  IF ArenaSize - MaxCalls * MaxHunk > SlotEnd(1)
  THEN ArenaSize - MaxCalls * MaxHunk ELSE SlotEnd(1)
MemHi == ArenaSize + HunkSize
Addr == MemLo..(MemHi - 1)

ZeroDesc ==
  [top |-> NULL, size |-> 0, key |-> NULL, val |-> NULL, g |-> FALSE,
   prev |-> NULL, next |-> NULL]

-----------------------------------------------------------------------------
(* Memory and strings *)

Min(a, b) == IF a < b THEN a ELSE b
Max(a, b) == IF a > b THEN a ELSE b

InMem(p) == p \in Addr

\* Address of the first zero byte at or after p (every string read stops there).
StrEnd(mem, p) ==
  CHOOSE a \in p..(MemHi - 1) : mem[a] = 0 /\ \A b \in p..(a - 1) : mem[b] # 0

HasEnd(mem, p) == InMem(p) /\ \E a \in p..(MemHi - 1) : mem[a] = 0

strlen(mem, p) == StrEnd(mem, p) - p

\* The string at p, without its terminator.
StrAt(mem, p) == [i \in 1..strlen(mem, p) |-> mem[p + i - 1]]

\* The n bytes at p.
BytesAt(mem, p, n) == [i \in 1..n |-> mem[p + i - 1]]

\* A read of the string at p is undefined: p is NULL, or the read runs past
\* the end of the buffer.
StrReadUB(mem, p) == ~HasEnd(mem, p) \/ StrEnd(mem, p) >= ArenaSize

\* memcpy(p, bytes, Len(bytes)); a store outside the kept bytes is lost.
Write(mem, p, bytes) ==
  [a \in Addr |-> IF a >= p /\ a < p + Len(bytes) THEN bytes[a - p + 1] ELSE mem[a]]

\* The store is undefined: through NULL, or outside the heap part of the buffer.
WriteUB(p, n) == n > 0 /\ (p < MemLo \/ p + n > ArenaSize)

Zeros(n) == [i \in 1..n |-> 0]

\* strcmp order of two strings: -1, 0, 1.
RECURSIVE StrCmp(_, _)
StrCmp(a, b) ==
  IF a = <<>> /\ b = <<>> THEN 0
  ELSE IF a = <<>> THEN -1
  ELSE IF b = <<>> THEN 1
  ELSE IF Head(a) < Head(b) THEN -1
  ELSE IF Head(a) > Head(b) THEN 1
  ELSE StrCmp(Tail(a), Tail(b))

-----------------------------------------------------------------------------
(* Key, value, heap and descriptor helpers *)

tbd_key_size(mem, d) == strlen(mem, d.key)

tbd_value_size(mem, d) == strlen(mem, d.val) + 1

tbd_heap_end(d) == d.top + d.size

tbd_heap_cmp(d1, d2) ==
  IF d1.top < d2.top THEN -1 ELSE IF d1.top > d2.top THEN 1 ELSE 0

tbd_keyvalue_set_garbage(d, is_garbage) ==
  IF is_garbage THEN [d EXCEPT !.g = TRUE, !.key = NULL, !.val = NULL]
  ELSE [d EXCEPT !.g = FALSE]

tbd_keyvalue_recycle(d) ==
  [tbd_keyvalue_set_garbage(d, FALSE) EXCEPT !.next = NULL, !.prev = NULL]

tbd_keyvalue_size(d) == d.size + KvSize

tbd_keyvalue_hunk_size(t, key_size, value_size) ==
  LET hunk_count == (key_size + value_size) \div t.hunk_size
  IN (IF hunk_count = 0 THEN 1 ELSE hunk_count) * t.hunk_size

tbd_is_empty(t) == t.count = 0
tbd_count(t) == t.count
tbd_size(t) == t.size
tbd_size_used(t) == HeadSize + t.count * KvSize + t.heap_size

-----------------------------------------------------------------------------
(* Arena construction *)

\* tbd_init returns an arena and not NULL: the only test it makes is that the
\* buffer has room for the header.
InitReturns(size, hunk_size) == ~(size < HeadSize)

tbd_init(size, hunk_size) ==
  [size |-> size, hunk_size |-> hunk_size,
   last_found |-> NULL, front |-> NULL, back |-> NULL,
   count |-> 0, slots |-> [i \in 1..NSlots |-> ZeroDesc],
   heap_top |-> size, heap_size |-> 0,
   mem |-> [a \in Addr |-> 0]]

-----------------------------------------------------------------------------
(* Garbage list *)

\* The loop that looks for the insertion point: the first list element whose
\* hunk is not below the hunk at address top.  fuel counts the elements left
\* to visit before one is visited twice.
RECURSIVE InsertionPoint(_, _, _, _, _)
InsertionPoint(slots, top, prev, next, fuel) ==
  IF next # NULL /\ slots[next].top < top
  THEN IF fuel = 0 THEN [prev |-> prev, next |-> next, hang |-> TRUE]
       ELSE InsertionPoint(slots, top, next, slots[next].next, fuel - 1)
  ELSE [prev |-> prev, next |-> next, hang |-> FALSE]

\* The loop that follows next_garbage from kv to the last element.
RECURSIVE LastOfSublist(_, _, _)
LastOfSublist(slots, kv, fuel) ==
  IF slots[kv].next # NULL
  THEN IF fuel = 0 THEN [last |-> kv, hang |-> TRUE]
       ELSE LastOfSublist(slots, slots[kv].next, fuel - 1)
  ELSE [last |-> kv, hang |-> FALSE]

tbd_garbage_list_insert(t, kv) ==
  IF t.front = NULL
  THEN [t |-> [t EXCEPT !.front = kv, !.back = kv,
                        !.slots[kv] = tbd_keyvalue_set_garbage(
                            [@ EXCEPT !.prev = NULL, !.next = NULL], TRUE)],
        hang |-> FALSE]
  ELSE
    LET s0 == t.slots
        ip == InsertionPoint(s0, s0[kv].top, NULL, t.front, NSlots)
        kl == LastOfSublist(s0, kv, NSlots)
        prev == ip.prev
        next == ip.next
        keyvalue_last == kl.last
        s1 == IF prev # NULL THEN [s0 EXCEPT ![prev].next = kv] ELSE s0
        front1 == IF prev # NULL THEN t.front ELSE kv
        s2 == [s1 EXCEPT ![kv].prev = prev]
        s3 == IF next # NULL /\ next # prev
              THEN [[s2 EXCEPT ![next].prev = keyvalue_last]
                        EXCEPT ![keyvalue_last].next = next]
              ELSE s2
        s4 == [s3 EXCEPT ![kv] = tbd_keyvalue_set_garbage(@, TRUE)]
    IN [t |-> [t EXCEPT !.front = front1, !.slots = s4],
        hang |-> ip.hang \/ kl.hang]

tbd_garbage_list_delete(t, kv) ==
  LET s0 == t.slots
      front1 == IF t.front = kv THEN s0[kv].next ELSE t.front
      back1 == IF t.back = kv THEN s0[kv].prev ELSE t.back
      prev == s0[kv].prev
      next == s0[kv].next
      s1 == IF prev # NULL THEN [s0 EXCEPT ![prev].next = s0[kv].next] ELSE s0
      s2 == IF next # NULL THEN [s1 EXCEPT ![next].prev = s1[kv].prev] ELSE s1
      s3 == [s2 EXCEPT ![kv] = tbd_keyvalue_set_garbage(@, FALSE)]
  IN [t EXCEPT !.front = front1, !.back = back1, !.slots = s3]

\* The walk of tbd_keyvalue_garbage_list_size and tbd_garbage_list_count from
\* list element p: the bytes and the number of the elements visited.
RECURSIVE GarbageWalk(_, _, _)
GarbageWalk(slots, p, fuel) ==
  IF p = NULL THEN [size |-> 0, count |-> 0, hang |-> FALSE]
  ELSE IF fuel = 0 THEN [size |-> 0, count |-> 0, hang |-> TRUE]
  ELSE LET rest == GarbageWalk(slots, slots[p].next, fuel - 1)
       IN [size |-> tbd_keyvalue_size(slots[p]) + rest.size,
           count |-> 1 + rest.count,
           hang |-> rest.hang]

\* The descriptors the same walk visits, in order; it stops after fuel steps.
RECURSIVE GarbageListed(_, _, _)
GarbageListed(slots, p, fuel) ==
  IF p = NULL \/ fuel = 0 THEN <<>>
  ELSE <<p>> \o GarbageListed(slots, slots[p].next, fuel - 1)

tbd_keyvalue_garbage_list_size(t) == GarbageWalk(t.slots, t.front, NSlots)

GarbageHangs(t) == tbd_keyvalue_garbage_list_size(t).hang

tbd_garbage_size(t) == tbd_keyvalue_garbage_list_size(t).size

tbd_garbage_count(t) == tbd_keyvalue_garbage_list_size(t).count

-----------------------------------------------------------------------------
(* Key index *)

\* The descriptor compares equal to key; a descriptor without a key string
\* (key pointer NULL) is an undefined read and compares unequal.
KeyReadUB(t, i) == StrReadUB(t.mem, t.slots[i].key)

tbd_keyvalue_keycmp(t, i, key) ==
  IF HasEnd(t.mem, t.slots[i].key) THEN StrCmp(StrAt(t.mem, t.slots[i].key), key)
  ELSE 1

\* The top-down scan: the newest live descriptor holding key, NULL if none.
ScanHit(t, key) ==
  LET hits == {i \in 1..t.count :
                 ~t.slots[i].g /\ tbd_keyvalue_keycmp(t, i, key) = 0}
  IN IF hits = {} THEN NULL ELSE CHOOSE i \in hits : \A j \in hits : j <= i

tbd_find_keyvalue(t, key) ==
  IF tbd_is_empty(t) THEN [t |-> t, p |-> NULL, ub |-> FALSE]
  ELSE
    LET lf == t.last_found
        cached == lf # NULL /\ ~t.slots[lf].g
        cacheUB == cached /\ KeyReadUB(t, lf)
    IN IF cached /\ tbd_keyvalue_keycmp(t, lf, key) = 0
       THEN [t |-> t, p |-> lf, ub |-> cacheUB]
       ELSE
         LET hit == ScanHit(t, key)
             scanned == IF hit = NULL THEN 1..t.count ELSE hit..t.count
             scanUB == \E i \in scanned : ~t.slots[i].g /\ KeyReadUB(t, i)
         IN [t |-> IF hit = NULL THEN t ELSE [t EXCEPT !.last_found = hit],
             p |-> hit,
             ub |-> cacheUB \/ scanUB]

-----------------------------------------------------------------------------
(* Create, read, update, delete *)

\* What a public call leaves: the arena, the returned value, whether the call
\* read or wrote where it must not, whether it never returns, whether an
\* assertion failed.
Result(t, r, ub) == [t |-> t, r |-> r, ub |-> ub, hang |-> FALSE, trap |-> FALSE]

\* Bottom-up: the oldest garbage descriptor whose hunk has exactly hunk_size bytes.
tbd_find_first_garbage_hunk(t, hunk_size) ==
  LET fit == {i \in 1..t.count : t.slots[i].g /\ t.slots[i].size = hunk_size}
  IN IF fit = {} THEN NULL ELSE CHOOSE i \in fit : \A j \in fit : i <= j

tbd_reclaim_garbage(t, kv) == tbd_garbage_list_delete(t, kv)

\* The value and key pointers of slot kv are set into its hunk and the value
\* bytes zeroed.
SetPointers(t, kv, value_size) ==
  LET top == t.slots[kv].top
  IN [t |-> [t EXCEPT !.slots[kv].val = top,
                      !.slots[kv].key = top + value_size,
                      !.mem = Write(t.mem, top, Zeros(value_size))],
      kv |-> kv, ub |-> WriteUB(top, value_size)]

\* A push that, when the hunk does not fit, takes the descriptor back from the
\* stack but leaves the hunk on the heap: what the tbd_heap_pop of
\* tbd_create_keyvalue rules out.
PushKeyvalueHeapKept(t, hunk_size, value_size) ==
  IF t.heap_top - hunk_size < SlotEnd(t.count + 1)
  THEN [t |-> [t EXCEPT !.heap_top = @ - hunk_size, !.heap_size = @ + hunk_size],
        kv |-> NULL, ub |-> FALSE]
  ELSE SetPointers([t EXCEPT !.count = @ + 1,
                             !.heap_top = @ - hunk_size,
                             !.heap_size = @ + hunk_size,
                             !.slots[t.count + 1] = tbd_keyvalue_recycle(
                                 [@ EXCEPT !.top = t.heap_top - hunk_size,
                                           !.size = hunk_size])],
                   t.count + 1, value_size)

PushKeyvalueUncheckedHunk(t, hunk_size, value_size) ==
  IF t.heap_top < SlotEnd(t.count + 1) THEN [t |-> t, kv |-> NULL, ub |-> FALSE]
  ELSE SetPointers([t EXCEPT !.count = @ + 1,
                             !.heap_top = @ - hunk_size,
                             !.heap_size = @ + hunk_size,
                             !.slots[t.count + 1] = tbd_keyvalue_recycle(
                                 [@ EXCEPT !.top = t.heap_top - hunk_size,
                                           !.size = hunk_size])],
                   t.count + 1, value_size)

PushKeyvalueUncheckedDescriptor(t, hunk_size, value_size) ==
  IF t.heap_top - hunk_size < SlotEnd(t.count) THEN [t |-> t, kv |-> NULL, ub |-> FALSE]
  ELSE SetPointers([t EXCEPT !.count = @ + 1,
                             !.heap_top = @ - hunk_size,
                             !.heap_size = @ + hunk_size,
                             !.slots[t.count + 1] = tbd_keyvalue_recycle(
                                 [@ EXCEPT !.top = t.heap_top - hunk_size,
                                           !.size = hunk_size])],
                   t.count + 1, value_size)

\* A new descriptor is pushed on the stack and a hunk on the heap; kv is NULL
\* and nothing is kept when the hunk would reach into the new descriptor.
PushKeyvalue(t, hunk_size, value_size) ==
  LET kv == t.count + 1
      heap_top == t.heap_top - hunk_size
  IN IF heap_top < SlotEnd(kv) THEN [t |-> t, kv |-> NULL, ub |-> FALSE]
     ELSE SetPointers([t EXCEPT !.count = kv,
                                !.heap_top = heap_top,
                                !.heap_size = t.heap_size + hunk_size,
                                !.slots[kv] = tbd_keyvalue_recycle(
                                    [@ EXCEPT !.top = heap_top, !.size = hunk_size])],
                      kv, value_size)

\* The descriptor for a new key: a garbage descriptor with a hunk of exactly
\* the size needed, else a new one.
CreateIn(t, found, hunk_size, value_size) ==
  IF found # NULL THEN SetPointers(tbd_reclaim_garbage(t, found), found, value_size)
  ELSE PushKeyvalue(t, hunk_size, value_size)

tbd_create_keyvalue(t, key_size, value_size) ==
  CreateIn(t,
           tbd_find_first_garbage_hunk(
               t, tbd_keyvalue_hunk_size(t, key_size, value_size)),
           tbd_keyvalue_hunk_size(t, key_size, value_size),
           value_size)

\* A Create that reports NoError although tbd_create_keyvalue made no
\* descriptor: what the NULL test of tbd_create rules out.
CreateCopyErrorIgnored(c, find_ub, key, value) ==
  LET d == c.t.slots[c.kv]
  IN IF c.kv = NULL THEN Result(c.t, TBD_NO_ERROR, find_ub)
     ELSE Result([c.t EXCEPT !.mem = Write(Write(c.t.mem, d.key, key \o <<0>>),
                                           d.val, value)],
                 TBD_NO_ERROR,
                 find_ub \/ c.ub \/ WriteUB(d.key, Len(key) + 1))

\* The key (with its terminator) and the value are copied into the hunk of
\* the descriptor c.kv that tbd_create_keyvalue made.
CreateCopy(c, find_ub, key, value) ==
  LET d == c.t.slots[c.kv]
  IN IF c.kv = NULL THEN Result(c.t, TBD_ERROR, find_ub)
     ELSE Result([c.t EXCEPT !.mem = Write(Write(c.t.mem, d.key, key \o <<0>>),
                                           d.val, value)],
                 TBD_NO_ERROR,
                 find_ub \/ c.ub \/ WriteUB(d.key, Len(key) + 1))

CreateFound(f, key, value) ==
  IF f.p # NULL THEN Result(f.t, TBD_ERROR_KEY_EXISTS, f.ub)
  ELSE CreateCopy(tbd_create_keyvalue(f.t, Len(key) + 1, Len(value)), f.ub, key, value)

tbd_create(t, key, value) == CreateFound(tbd_find_keyvalue(t, key), key, value)

\* The size the arena reports for the value of descriptor d: the bytes up to
\* and including the first zero byte; 0 stands for a read that finds none.
StoredSize(mem, d) == IF HasEnd(mem, d.val) THEN tbd_value_size(mem, d) ELSE 0

\* out is the caller's buffer after the call: <<>> when nothing was copied.
ReadFound(f, value_size) ==
  LET d == f.t.slots[f.p]
  IN IF f.p = NULL
     THEN [t |-> f.t, r |-> TBD_ERROR_KEY_NOT_FOUND, out |-> <<>>, ub |-> f.ub,
           hang |-> FALSE, trap |-> FALSE]
     ELSE IF StoredSize(f.t.mem, d) # value_size
     THEN [t |-> f.t, r |-> TBD_ERROR_BAD_SIZE, out |-> <<>>,
           ub |-> f.ub \/ StrReadUB(f.t.mem, d.val), hang |-> FALSE, trap |-> FALSE]
     ELSE [t |-> f.t, r |-> TBD_NO_ERROR, out |-> BytesAt(f.t.mem, d.val, value_size),
           ub |-> f.ub \/ StrReadUB(f.t.mem, d.val), hang |-> FALSE, trap |-> FALSE]

tbd_read(t, key, value_size) == ReadFound(tbd_find_keyvalue(t, key), value_size)

\* An update that takes a value of any size and moves the key behind it:
\* what the size test of tbd_update rules out.
UpdateFoundResizing(f, value) ==
  LET d == f.t.slots[f.p]
  IN IF f.p = NULL THEN Result(f.t, TBD_ERROR_KEY_NOT_FOUND, f.ub)
     ELSE Result([f.t EXCEPT !.mem = Write(f.t.mem, d.val, value),
                             !.slots[f.p].key = d.val + Len(value)],
                 TBD_NO_ERROR, f.ub \/ WriteUB(d.val, Len(value)))

UpdateFound(f, value) ==
  LET d == f.t.slots[f.p]
      value_size == Len(value)
      ptr_value_size == StoredSize(f.t.mem, d)
      copy_size == IF ptr_value_size < value_size THEN ptr_value_size ELSE value_size
  IN IF f.p = NULL THEN Result(f.t, TBD_ERROR_KEY_NOT_FOUND, f.ub)
     ELSE IF value_size # ptr_value_size
     THEN Result(f.t, TBD_ERROR_BAD_SIZE, f.ub \/ StrReadUB(f.t.mem, d.val))
     ELSE Result([f.t EXCEPT !.mem = Write(f.t.mem, d.val, SubSeq(value, 1, copy_size))],
                 TBD_NO_ERROR,
                 f.ub \/ StrReadUB(f.t.mem, d.val) \/ WriteUB(d.val, copy_size))

tbd_update(t, key, value) == UpdateFound(tbd_find_keyvalue(t, key), value)

\* The descriptor is linked into the garbage list, then flagged and cleared.
DeleteListed(ins, kv, find_ub) ==
  [t |-> [ins.t EXCEPT !.slots[kv] = tbd_keyvalue_set_garbage(@, TRUE)],
   r |-> TBD_NO_ERROR, ub |-> find_ub, hang |-> ins.hang, trap |-> FALSE]

DeleteFound(f) ==
  IF f.p = NULL THEN Result(f.t, TBD_NO_ERROR, f.ub)
  ELSE DeleteListed(tbd_garbage_list_insert(f.t, f.p), f.p, f.ub)

tbd_delete(t, key) == DeleteFound(tbd_find_keyvalue(t, key))

ReadSizeFound(f) ==
  IF f.p = NULL THEN Result(f.t, 0, f.ub)
  ELSE Result(f.t, StoredSize(f.t.mem, f.t.slots[f.p]),
              f.ub \/ StrReadUB(f.t.mem, f.t.slots[f.p].val))

tbd_read_size(t, key) == ReadSizeFound(tbd_find_keyvalue(t, key))

-----------------------------------------------------------------------------
(* Descriptor moves *)

\* The second half of tbd_keyvalue_copy, on the bytes m1 its first half left:
\* the key of src is measured and copied, without its terminator, to where the
\* key pointer of dest points; then dest points where src points.
CopyKey(t, dest, src, m1, value_ub) ==
  LET d == t.slots[dest]
      s == t.slots[src]
      key_size == IF HasEnd(m1, s.key) THEN strlen(m1, s.key) ELSE 0
  IN [t |-> [t EXCEPT !.mem = Write(m1, d.key, BytesAt(m1, s.key, key_size)),
                      !.slots[dest].key = s.key,
                      !.slots[dest].val = s.val],
      r |-> tbd_keyvalue_size(s),
      ub |-> value_ub \/ StrReadUB(m1, s.key) \/ WriteUB(d.key, key_size)]

\* The value of src is measured and copied to where the value pointer of dest
\* points, then the key.
tbd_keyvalue_copy(t, dest, src) ==
  LET d == t.slots[dest]
      s == t.slots[src]
      value_size == StoredSize(t.mem, s)
  IN CopyKey(t, dest, src,
             Write(t.mem, d.val, BytesAt(t.mem, s.val, value_size)),
             StrReadUB(t.mem, s.val) \/ WriteUB(d.val, value_size))

\* The two pointers after the call: the first is overwritten before it is
\* saved, so both end up as the second.
tbd_keyvalue_swap_ptr(keyvalue1, keyvalue2) == <<keyvalue2, keyvalue2>>

\* Exchanges the contents of two stack slots, links included.
tbd_keyvalue_swap(slots, i, j) == [slots EXCEPT ![i] = slots[j], ![j] = slots[i]]

\* A merge that does not ask whether both descriptors are garbage: what the
\* first test of tbd_keyvalue_merge_garbage rules out.
MergeAnyKeyvalues(t, keyvalue1, keyvalue2) ==
  LET s0 == t.slots
      heap1_size == s0[keyvalue1].size
      s1 == [s0 EXCEPT ![keyvalue2].size = @ + heap1_size,
                       ![keyvalue2].top = @ - heap1_size]
      s2 == [s1 EXCEPT ![keyvalue1].size = @ - heap1_size,
                       ![keyvalue1].top = @ + heap1_size]
  IN IF tbd_heap_end(s0[keyvalue1]) # s0[keyvalue2].top THEN [t |-> t, r |-> 0]
     ELSE [t |-> [t EXCEPT !.slots = s2], r |-> s2[keyvalue2].size]

tbd_keyvalue_merge_garbage(t, keyvalue1, keyvalue2) ==
  LET s0 == t.slots
      cmp == tbd_heap_cmp(s0[keyvalue1], s0[keyvalue2])
      kv == IF 0 < cmp THEN tbd_keyvalue_swap_ptr(keyvalue1, keyvalue2)
            ELSE <<keyvalue1, keyvalue2>>
      k1 == kv[1]
      k2 == kv[2]
      heap1_size == s0[k1].size
      s1 == [s0 EXCEPT ![k2].size = @ + heap1_size, ![k2].top = @ - heap1_size]
      s2 == [s1 EXCEPT ![k1].size = @ - heap1_size, ![k1].top = @ + heap1_size]
  IN IF ~s0[keyvalue1].g \/ ~s0[keyvalue2].g THEN [t |-> t, r |-> 0]
     ELSE IF tbd_heap_end(s0[k1]) # s0[k2].top THEN [t |-> t, r |-> 0]
     ELSE [t |-> [t EXCEPT !.slots = s2], r |-> s2[k2].size]

-----------------------------------------------------------------------------
(* Sorting *)

\* The key of a descriptor as strcmp reads it; a NULL key reads as the empty
\* string where the read does not trap.
KeyStr(mem, d) == IF HasEnd(mem, d.key) THEN StrAt(mem, d.key) ELSE <<>>

tbd_keyvalue_cmp(mem, keyvalue1, keyvalue2) ==
  StrCmp(KeyStr(mem, keyvalue1), KeyStr(mem, keyvalue2))

tbd_keyvalue_cmp_heap(keyvalue1, keyvalue2) == tbd_heap_cmp(keyvalue1, keyvalue2)

\* One bubble pass from the top of the stack down, prev being the slot above
\* next.
RECURSIVE tbd_keyvalue_stack_bubble_by_key(_, _, _, _)
tbd_keyvalue_stack_bubble_by_key(mem, slots, next, swapped) ==
  IF next = 0 THEN [slots |-> slots, swapped |-> swapped]
  ELSE IF tbd_keyvalue_cmp(mem, slots[next + 1], slots[next]) > 0
       THEN tbd_keyvalue_stack_bubble_by_key(
              mem, tbd_keyvalue_swap(slots, next + 1, next), next - 1, TRUE)
       ELSE tbd_keyvalue_stack_bubble_by_key(mem, slots, next - 1, swapped)

RECURSIVE tbd_keyvalue_stack_bubble_by_heap(_, _, _)
tbd_keyvalue_stack_bubble_by_heap(slots, next, swapped) ==
  IF next = 0 THEN [slots |-> slots, swapped |-> swapped]
  ELSE IF tbd_keyvalue_cmp_heap(slots[next + 1], slots[next]) > 0
       THEN tbd_keyvalue_stack_bubble_by_heap(
              tbd_keyvalue_swap(slots, next + 1, next), next - 1, TRUE)
       ELSE tbd_keyvalue_stack_bubble_by_heap(slots, next - 1, swapped)

\* A bubble sort of n elements swaps in at most n - 1 passes when the order is
\* consistent.
SortFuel == NSlots

\* Passes are repeated until one swaps nothing.
RECURSIVE tbd_keyvalue_stack_sort_by_key(_, _, _, _)
tbd_keyvalue_stack_sort_by_key(mem, slots, count, fuel) ==
  IF count < 2 THEN [slots |-> slots, hang |-> FALSE]
  ELSE LET pass == tbd_keyvalue_stack_bubble_by_key(mem, slots, count - 1, FALSE)
       IN IF ~pass.swapped THEN [slots |-> pass.slots, hang |-> FALSE]
          ELSE IF fuel = 0 THEN [slots |-> pass.slots, hang |-> TRUE]
          ELSE tbd_keyvalue_stack_sort_by_key(mem, pass.slots, count, fuel - 1)

RECURSIVE tbd_keyvalue_stack_sort_by_heap(_, _, _)
tbd_keyvalue_stack_sort_by_heap(slots, count, fuel) ==
  IF count < 2 THEN [slots |-> slots, hang |-> FALSE]
  ELSE LET pass == tbd_keyvalue_stack_bubble_by_heap(slots, count - 1, FALSE)
       IN IF ~pass.swapped THEN [slots |-> pass.slots, hang |-> FALSE]
          ELSE IF fuel = 0 THEN [slots |-> pass.slots, hang |-> TRUE]
          ELSE tbd_keyvalue_stack_sort_by_heap(pass.slots, count, fuel - 1)

SortResult(t, srt, ub, trap) ==
  [t |-> [t EXCEPT !.slots = srt.slots], r |-> TBD_NO_ERROR, ub |-> ub,
   hang |-> srt.hang, trap |-> trap]

tbd_sort_by_heap(t) ==
  SortResult(t, tbd_keyvalue_stack_sort_by_heap(t.slots, t.count, SortFuel),
             FALSE, FALSE)

\* Keys are compared with tbd_keyvalue_cmp(prev, next), which asserts that the
\* key pointer of next is not NULL and hands the key pointer of prev to
\* strcmp.  Every slot below the newest is next in the first pass: a NULL key
\* there fails the assertion.  A NULL key in the newest slot is an undefined
\* read; where it does not trap and compares before the key below, the slot
\* stays where it is; where it compares after, the slot is swapped down and
\* is next, and fails the assertion, in the following pass.
tbd_sort_by_key(t) ==
  SortResult(t, tbd_keyvalue_stack_sort_by_key(t.mem, t.slots, t.count, SortFuel),
             t.count >= 2 /\ \E i \in 1..t.count : KeyReadUB(t, i),
             t.count >= 2 /\ \E i \in 1..(t.count - 1) : t.slots[i].key = NULL)

-----------------------------------------------------------------------------
(* Garbage collection *)

\* A call that fails an assertion.
Trap(t) == [t |-> t, r |-> 0, ub |-> FALSE, hang |-> FALSE, trap |-> TRUE]

\* A call that walks a cyclic garbage list.
Hang(t) == [t |-> t, r |-> 0, ub |-> FALSE, hang |-> TRUE, trap |-> FALSE]

\* One step of the loop of tbd_garbage_merge; st.r is total_merged.
MergeStep(st, m) == [st EXCEPT !.t = m.t, !.r = @ + m.r]

\* The loop of tbd_garbage_merge: prev is the slot above next.
RECURSIVE MergeLoop(_, _)
MergeLoop(st, next) ==
  IF next = 0 THEN st
  ELSE MergeLoop(MergeStep(st, tbd_keyvalue_merge_garbage(st.t, next + 1, next)),
                 next - 1)

\* On an empty stack the top-of-stack iterator is NULL and never meets the end
\* iterator: the first descriptor access fails its assertion.
tbd_garbage_merge(t) ==
  IF t.count = 0 THEN Trap(t) ELSE MergeLoop(Result(t, 0, FALSE), t.count - 1)

\* The newest descriptor is taken off the stack, its hunk off the heap and the
\* descriptor out of the garbage list; st.r is pop_total.
PopStep(st) ==
  LET d == st.t.slots[st.t.count]
  IN [st EXCEPT !.r = @ + tbd_keyvalue_size(d),
                !.t = tbd_garbage_list_delete(
                        [st.t EXCEPT !.heap_size = @ - d.size,
                                     !.heap_top = @ + d.size,
                                     !.count = @ - 1],
                        st.t.count)]

\* The loop of tbd_garbage_pop: it goes on while the newest descriptor is
\* garbage, its hunk is the top of the heap and the limit is not passed.
RECURSIVE PopLoop(_, _)
PopLoop(st, garbage_limit) ==
  LET d == st.t.slots[st.t.count]
  IN IF st.t.count = 0 THEN st
     ELSE IF ~(d.g /\ d.top = st.t.heap_top) THEN st
     ELSE IF st.r + tbd_keyvalue_size(d) > garbage_limit THEN st
     ELSE PopLoop(PopStep(st), garbage_limit)

\* On an empty stack the loop condition reads the flag of a NULL descriptor.
tbd_garbage_pop(t, garbage_limit) ==
  IF garbage_limit = 0 THEN Result(t, 0, FALSE)
  ELSE IF t.count = 0 THEN Trap(t)
  ELSE PopLoop(Result(t, 0, FALSE), garbage_limit)

\* One match of the fold, after the copy c of the live slot temp_top to the
\* garbage slot btm: the flags are exchanged, temp_top takes the list links
\* of btm and the list ends that were btm become temp_top.
FoldMatch(st, c, btm, temp_top) ==
  LET s1 == [c.t.slots EXCEPT ![btm] = tbd_keyvalue_set_garbage(@, FALSE)]
      s2 == [s1 EXCEPT ![temp_top] = tbd_keyvalue_set_garbage(@, TRUE)]
      s3 == [s2 EXCEPT ![temp_top].next = s2[btm].next]
      s4 == [s3 EXCEPT ![temp_top].prev = s3[btm].prev]
  IN [st EXCEPT !.t = [c.t EXCEPT !.slots = s4,
                                  !.front = IF @ = btm THEN temp_top ELSE @,
                                  !.back = IF @ = btm THEN temp_top ELSE @],
                !.r = @ + c.r,
                !.ub = @ \/ c.ub]

\* One turn of the inner loop: a live slot temp_top that fits the limit and
\* has a hunk of the size of the hunk of btm is folded into btm.
FoldStep(st, btm, temp_top, garbage_limit) ==
  IF /\ ~st.t.slots[temp_top].g
     /\ st.r + tbd_keyvalue_size(st.t.slots[temp_top]) <= garbage_limit
     /\ st.t.slots[btm].size = st.t.slots[temp_top].size
  THEN FoldMatch(st, tbd_keyvalue_copy(st.t, btm, temp_top), btm, temp_top)
  ELSE st

\* The inner loop: temp_top walks from top down to the bottom of the stack and
\* does not stop at a match.
RECURSIVE FoldInner(_, _, _, _)
FoldInner(st, btm, temp_top, garbage_limit) ==
  IF temp_top = 0 THEN st
  ELSE FoldInner(FoldStep(st, btm, temp_top, garbage_limit), btm, temp_top - 1,
                 garbage_limit)

\* The outer loop: top steps down over garbage, btm steps up over live slots;
\* where top is live and btm is garbage the inner loop runs and both step.
RECURSIVE FoldOuter(_, _, _, _)
FoldOuter(st, top, btm, garbage_limit) ==
  IF ~(st.r < garbage_limit /\ top # 0 /\ btm # st.t.count + 1) THEN st
  ELSE LET skip_top == st.t.slots[top].g
           skip_btm == ~skip_top /\ ~st.t.slots[btm].g
       IN FoldOuter(IF skip_top \/ skip_btm THEN st
                    ELSE FoldInner(st, btm, top, garbage_limit),
                    IF skip_btm THEN top ELSE top - 1,
                    IF skip_top THEN btm ELSE btm + 1,
                    garbage_limit)

tbd_garbage_fold(t, garbage_limit) ==
  IF garbage_limit = 0 THEN Result(t, 0, FALSE)
  ELSE IF GarbageHangs(t) THEN Hang(t)
  ELSE IF tbd_garbage_size(t) = 0 THEN Result(t, 0, FALSE)
  ELSE FoldOuter(Result(t, 0, FALSE), t.count, 1, garbage_limit)

\* The end of one step of the pack: src takes the size dest had, dest leaves
\* the garbage list and src enters it.
PackRelink(st, c, dest, src, dest_size) ==
  [st EXCEPT !.t = tbd_garbage_list_delete(
                     [c.t EXCEPT !.slots[src].size = dest_size], dest),
             !.ub = @ \/ c.ub]

PackInsert(st, ins) == [st EXCEPT !.t = ins.t, !.hang = ins.hang]

PackListed(st, src) == PackInsert(st, tbd_garbage_list_insert(st.t, src))

\* One step of the pack: dest is garbage, src (the slot above it) is live.
\* The hunk of dest is cut to the size of the hunk of src, at its upper end,
\* and src is copied to dest.
PackStep(st, dest, src) ==
  LET src_size == st.t.slots[src].size
      dest_size == st.t.slots[dest].size
  IN PackListed(
       PackRelink(st,
                  tbd_keyvalue_copy(
                    [st.t EXCEPT !.slots[dest].top = @ + dest_size - src_size,
                                 !.slots[dest].size = src_size],
                    dest, src),
                  dest, src, dest_size),
       src)

RECURSIVE PackLoop(_, _)
PackLoop(st, src) ==
  IF src = st.t.count + 1 \/ st.hang THEN st
  ELSE PackLoop(IF st.t.slots[src - 1].g /\ ~st.t.slots[src].g
                THEN PackStep(st, src - 1, src) ELSE st,
                src + 1)

\* garbage_total is never added to: the call returns 0.
tbd_garbage_pack(t, garbage_limit) ==
  IF garbage_limit = 0 \/ t.count = 0 THEN Result(t, 0, FALSE)
  ELSE PackLoop(Result(t, 0, FALSE), 2)

\* The three phases of tbd_garbage_collect, each on what the one before left
\* of the arena and of the limit.
CollectPacked(pop, fold, pack) ==
  [pack EXCEPT !.r = pop.r + fold.r + @, !.ub = fold.ub \/ @]

CollectFolded(pop, fold, garbage_limit) ==
  IF fold.hang \/ garbage_limit <= fold.r THEN [fold EXCEPT !.r = pop.r + @]
  ELSE CollectPacked(pop, fold, tbd_garbage_pack(fold.t, garbage_limit - fold.r))

CollectPopped(pop, garbage_limit) ==
  IF pop.trap \/ garbage_limit <= pop.r THEN pop
  ELSE CollectFolded(pop, tbd_garbage_fold(pop.t, garbage_limit - pop.r),
                     garbage_limit - pop.r)

tbd_garbage_collect(t, garbage_limit) ==
  IF garbage_limit = 0 THEN Result(t, 0, FALSE)
  ELSE IF GarbageHangs(t) THEN Hang(t)
  ELSE IF tbd_garbage_size(t) = 0 THEN Result(t, 0, FALSE)
  ELSE CollectPopped(tbd_garbage_pop(t, garbage_limit), garbage_limit)

tbd_garbage_clean(t) ==
  IF GarbageHangs(t) THEN Hang(t) ELSE tbd_garbage_collect(t, tbd_garbage_size(t))

-----------------------------------------------------------------------------
(* The callers: one action per public function *)

\* Byte limits handed to the collector: the size of the newest descriptor
\* with its hunk, and the size of the arena.
Limits(t) ==
  {t.size} \cup (IF t.count = 0 THEN {} ELSE {tbd_keyvalue_size(t.slots[t.count])})

\* How a call can end: it returns ("no"), traps ("crash") or never returns
\* ("hang").  A process that stopped has no arena and no reference map left.
Outcomes(ub, hang, trap) ==
  (IF trap \/ hang THEN {} ELSE {"no"})
    \cup (IF trap \/ ub THEN {"crash"} ELSE {})
    \cup (IF hang THEN {"hang"} ELSE {})

\* The pointers and counters of the header of arena t.  stack.start is set
\* once, by tbd_init, to the address behind the header.
Header(t) ==
  [start |-> StackStart, count |-> t.count,
   heap_top |-> t.heap_top, heap_size |-> t.heap_size,
   last_found |-> t.last_found, front |-> t.front, back |-> t.back]

\* The header tbd_clear leaves: tbd_keyvalue_stack_clear and tbd_heap_clear
\* set stack.start and heap.top to NULL, not to what tbd_init computed.
tbd_clear(t) ==
  [Header(t) EXCEPT !.start = NULL, !.count = 0,
                    !.heap_top = NULL, !.heap_size = 0,
                    !.last_found = NULL, !.front = NULL, !.back = NULL]

\* An Empty that resets the heap, the cache and the garbage list but not the
\* stack: what the tbd_keyvalue_stack_empty of tbd_empty rules out.
EmptyStackKept(t) ==
  Result([t EXCEPT !.heap_size = 0, !.last_found = NULL,
                   !.front = NULL, !.back = NULL], 0, FALSE)

\* tbd_empty: tbd_keyvalue_stack_empty sets count to 0, tbd_heap_empty sets
\* heap.size to 0 and leaves heap.top alone, the cache and the garbage list are
\* reset.  The descriptors and the bytes stay where they are.
tbd_empty(t) ==
  Result([t EXCEPT !.count = 0, !.heap_size = 0, !.last_found = NULL,
                   !.front = NULL, !.back = NULL], 0, FALSE)

Call(res, newref) ==
  /\ halted = "no"
  /\ calls < MaxCalls
  /\ calls' = calls + 1
  /\ \E o \in Outcomes(res.ub, res.hang, res.trap) :
       /\ halted' = o
       /\ tbd' = IF o = "no" THEN res.t ELSE tbd_init(ArenaSize, HunkSize)
       /\ ref' = IF o = "no" THEN newref ELSE [k \in Keys |-> <<>>]

\* The reference map: Create inserts if the key is absent, Update overwrites
\* if the key is present with the same size, Delete removes.  The map has no
\* capacity: a Create the arena refuses for lack of room (TBD_ERROR) is not
\* replayed on it.
RefCreate(m, key, value) == IF m[key] = <<>> THEN [m EXCEPT ![key] = value] ELSE m
RefUpdate(m, key, value) ==
  IF m[key] # <<>> /\ Len(m[key]) = Len(value) THEN [m EXCEPT ![key] = value] ELSE m
RefDelete(m, key) == [m EXCEPT ![key] = <<>>]

Init ==
  /\ tbd = tbd_init(ArenaSize, HunkSize)
  /\ halted = "no"
  /\ ref = [k \in Keys |-> <<>>]
  /\ calls = 0

CreateCall(res, key, value) ==
  Call(res, IF res.r = TBD_ERROR THEN ref ELSE RefCreate(ref, key, value))

Create ==
  \E key \in Keys, value \in Values :
    CreateCall(tbd_create(tbd, key, value), key, value)

Read ==
  \E key \in Keys, value_size \in 1..MaxValueSize :
    Call(tbd_read(tbd, key, value_size), ref)

ReadSize ==
  \E key \in Keys : Call(tbd_read_size(tbd, key), ref)

Update ==
  \E key \in Keys, value \in UpdateValues :
    Call(tbd_update(tbd, key, value), RefUpdate(ref, key, value))

Delete ==
  \E key \in Keys : Call(tbd_delete(tbd, key), RefDelete(ref, key))

Pop ==
  \E garbage_limit \in Limits(tbd) :
    Call(tbd_garbage_pop(tbd, garbage_limit), ref)

Merge == Call(tbd_garbage_merge(tbd), ref)

Fold ==
  \E garbage_limit \in Limits(tbd) :
    Call(tbd_garbage_fold(tbd, garbage_limit), ref)

Pack ==
  \E garbage_limit \in Limits(tbd) :
    Call(tbd_garbage_pack(tbd, garbage_limit), ref)

Collect ==
  \E garbage_limit \in Limits(tbd) :
    Call(tbd_garbage_collect(tbd, garbage_limit), ref)

Clean == Call(tbd_garbage_clean(tbd), ref)

SortByHeap == Call(tbd_sort_by_heap(tbd), ref)

SortByKey == Call(tbd_sort_by_key(tbd), ref)

\* tbd_empty: every key is gone.
Empty == Call(tbd_empty(tbd), [k \in Keys |-> <<>>])

Next ==
  \/ Create
  \/ Read
  \/ ReadSize
  \/ Update
  \/ Delete
  \/ Pop
  \/ Merge
  \/ Fold
  \/ Pack
  \/ Collect
  \/ Clean
  \/ SortByHeap
  \/ SortByKey
  \/ Empty

Spec == Init /\ [][Next]_vars

-----------------------------------------------------------------------------
(* What the callers can observe *)

\* The call returns: it neither fails an assertion nor loops for ever.
Returns(res) == ~res.trap /\ ~res.hang

\* The call returns and does nothing undefined on the way.
Sound(res) == Returns(res) /\ ~res.ub

\* Key reads Ok with exactly these bytes (and the read does nothing undefined).
ReadsOk(t, key, bytes) ==
  LET rd == tbd_read(t, key, Len(bytes))
  IN Sound(rd) /\ rd.r = TBD_NO_ERROR /\ rd.out = bytes

\* Key reads NotFound.
ReadsNotFound(t, key) ==
  LET rd == tbd_read(t, key, HunkSize)
  IN Sound(rd) /\ rd.r = TBD_ERROR_KEY_NOT_FOUND

\* The keys a live descriptor of the stack holds.
LiveKeys(t) == {k \in Keys : tbd_find_keyvalue(t, k).p # NULL}

\* The bytes key reads with, at the size the arena reports for it.
StoredBytes(t, key) == tbd_read(t, key, tbd_read_size(t, key).r).out

\* Every key live in t reads in t2 Ok, with the size and the bytes it has in t.
KeepsLiveData(t, t2) ==
  \A k \in LiveKeys(t) : ReadsOk(t2, k, StoredBytes(t, k))

\* The live descriptors of the stack.
Live(t) == {i \in 1..t.count : ~t.slots[i].g}

\* Where a descriptor keeps its hunk, its key and its value.
Layout(d) == <<d.top, d.size, d.key, d.val>>

\* The descriptors in slots keep their layout from t to t2.
KeepsLayout(t, t2, among) ==
  \A i \in among : Layout(t2.slots[i]) = Layout(t.slots[i])

\* The bytes of the hunk of descriptor d.
HunkBytes(mem, d) == [a \in {b \in Addr : d.top <= b /\ b < d.top + d.size} |-> mem[a]]

\* Limits the claims try a collector call with: none, the whole arena, and for
\* every descriptor of the stack and for the listed garbage the exact size and
\* one byte less.
ProbeLimits(t) ==
  LET sizes == {tbd_keyvalue_size(t.slots[i]) : i \in 1..t.count}
                 \cup (IF GarbageHangs(t) THEN {} ELSE {tbd_garbage_size(t)})
  IN {0, t.size} \cup sizes \cup {n - HunkSize : n \in sizes \ {0}}

\* The bytes of the descriptors with their hunks in slots lo..hi.
RECURSIVE KeyvalueSizes(_, _, _)
KeyvalueSizes(t, lo, hi) ==
  IF lo > hi THEN 0 ELSE tbd_keyvalue_size(t.slots[lo]) + KeyvalueSizes(t, lo + 1, hi)

-----------------------------------------------------------------------------
(* Claims *)

\* C1: refinement of a map.  After every call of a sequence of Create, Read,
\* Update, Delete, Pop, Fold, Pack and Clean (and the other public calls) on an
\* initialized arena, replayed in lock-step on the reference map, every key of
\* the reference reads Ok with exactly the reference bytes and every key that
\* is absent from the reference reads NotFound.
C1_RefinesMap ==
  halted = "no" =>
    \A k \in Keys :
      IF ref[k] # <<>> THEN ReadsOk(tbd, k, ref[k]) ELSE ReadsNotFound(tbd, k)

\* C2: Create/Read round trip.  In every reachable arena state, for every key
\* and every value of n >= 1 arbitrary bytes (with or without a zero byte, with
\* a zero byte inside), a Create that returns Ok is followed by a Read of n
\* bytes that returns Ok and yields the value byte for byte.
C2_CreateReadRoundTrip ==
  halted = "no" =>
    \A k \in Keys, v \in Values \cup ByteValues :
      LET c == tbd_create(tbd, k, v)
      IN c.r = TBD_NO_ERROR => ReadsOk(c.t, k, v)

\* C3: Clean postcondition.  From every reachable state, after Clean returns,
\* GarbageSize is 0 and every key that was live before the call still reads Ok
\* with the same size and the same bytes.
C3_CleanPostcondition ==
  halted = "no" =>
    LET c == tbd_garbage_clean(tbd)
    IN Returns(c) =>
         /\ ~GarbageHangs(c.t)
         /\ tbd_garbage_size(c.t) = 0
         /\ KeepsLiveData(tbd, c.t)

\* C4: Fold preserves live data.  From every reachable state and for every
\* limit, after Fold(limit) every key that was live before the call is still
\* live and reads Ok with the same bytes.
C4_FoldPreservesLiveData ==
  halted = "no" =>
    \A limit \in ProbeLimits(tbd) :
      LET f == tbd_garbage_fold(tbd, limit)
      IN Returns(f) => KeepsLiveData(tbd, f.t)

\* C5: Pack reports what it reclaims.  Pack on an arena without descriptors
\* returns 0; where a garbage descriptor of the stack is followed in the next
\* newer slot by a live one and the limit is at least GarbageSize, Pack
\* returns a value greater than 0.
C5_PackReportsReclaimed ==
  halted = "no" /\ ~GarbageHangs(tbd) =>
    \A limit \in ProbeLimits(tbd) :
      LET p == tbd_garbage_pack(tbd, limit)
      IN /\ tbd.count = 0 => Returns(p) /\ p.r = 0
         /\ (/\ \E i \in 1..(tbd.count - 1) : tbd.slots[i].g /\ ~tbd.slots[i + 1].g
             /\ limit >= tbd_garbage_size(tbd)
             /\ Returns(p))
            => p.r > 0

\* C6: Pop reclaims top-of-heap garbage.  Where the newest descriptor is
\* garbage, its hunk starts at the heap top of the arena and the limit is at
\* least its keyvalue size, Pop(limit) returns a positive value, the sum of
\* the keyvalue sizes of the descriptors it removed; SizeUsed and GarbageSize
\* each drop by exactly that value, and every live key still reads Ok with
\* the same bytes.
C6_PopReclaimsTopGarbage ==
  halted = "no" /\ ~GarbageHangs(tbd) /\ tbd.count > 0 =>
    \A limit \in ProbeLimits(tbd) :
      LET newest == tbd.slots[tbd.count]
          p == tbd_garbage_pop(tbd, limit)
      IN (newest.g /\ newest.top = tbd.heap_top /\ limit >= tbd_keyvalue_size(newest))
         => /\ Returns(p)
            /\ p.r > 0
            /\ p.r = KeyvalueSizes(tbd, p.t.count + 1, tbd.count)
            /\ tbd_size_used(tbd) - tbd_size_used(p.t) = p.r
            /\ ~GarbageHangs(p.t)
            /\ tbd_garbage_size(tbd) - tbd_garbage_size(p.t) = p.r
            /\ KeepsLiveData(tbd, p.t)

\* C7: Pop refuses partial reclamation.  In every state and for every limit
\* Pop(limit) returns a value that is at most the limit; Pop(0) returns 0; a
\* limit below the keyvalue size of the newest, garbage, descriptor makes Pop
\* return 0 and leave Count, heap top, heap size and GarbageSize as they were.
C7_PopRefusesPartial ==
  halted = "no" /\ ~GarbageHangs(tbd) =>
    \A limit \in ProbeLimits(tbd) :
      LET p == tbd_garbage_pop(tbd, limit)
      IN /\ Returns(p)
         /\ p.r <= limit
         /\ limit = 0 => p.r = 0
         /\ (/\ tbd.count > 0
             /\ tbd.slots[tbd.count].g
             /\ limit < tbd_keyvalue_size(tbd.slots[tbd.count]))
            => /\ p.r = 0
               /\ p.t.count = tbd.count
               /\ p.t.heap_top = tbd.heap_top
               /\ p.t.heap_size = tbd.heap_size
               /\ tbd_garbage_size(p.t) = tbd_garbage_size(tbd)

\* C8: the hunk layout is changed only by fold, pack and merge.  Create,
\* Read, ReadSize, Update, Delete and Pop change neither the (heap top, heap
\* size) tuple nor the key pointer nor the value pointer of a descriptor that
\* is live after the call, the descriptor a Create allocates or recycles
\* excepted.
C8_LayoutKeptByCrudAndPop ==
  halted = "no" =>
    /\ \A k \in Keys, v \in Values \cup ByteValues :
         LET c == tbd_create(tbd, k, v)
         IN KeepsLayout(tbd, c.t, Live(c.t) \cap Live(tbd))
    /\ \A k \in Keys, n \in 1..MaxValueSize :
         LET rd == tbd_read(tbd, k, n)
         IN KeepsLayout(tbd, rd.t, Live(rd.t))
    /\ \A k \in Keys :
         LET rs == tbd_read_size(tbd, k)
         IN KeepsLayout(tbd, rs.t, Live(rs.t))
    /\ \A k \in Keys, v \in Values \cup ByteValues :
         LET u == tbd_update(tbd, k, v)
         IN KeepsLayout(tbd, u.t, Live(u.t))
    /\ \A k \in Keys :
         LET d == tbd_delete(tbd, k)
         IN Returns(d) => KeepsLayout(tbd, d.t, Live(d.t))
    /\ \A limit \in ProbeLimits(tbd) :
         LET p == tbd_garbage_pop(tbd, limit)
         IN Returns(p) => KeepsLayout(tbd, p.t, Live(p.t))

\* A Pop removes a descriptor and leaves a live one on the stack.
C8_Witness ==
  /\ halted = "no"
  /\ \E limit \in ProbeLimits(tbd) :
       LET p == tbd_garbage_pop(tbd, limit)
       IN Returns(p) /\ p.r > 0 /\ Live(p.t) # {}

\* C9: Merge leaves live descriptors untouched.  In every reachable state
\* Merge changes neither the (heap top, heap size) tuple, nor the key and
\* value pointers, nor the stored bytes, nor the garbage flag of a live
\* descriptor.
C9_MergeKeepsLiveDescriptors ==
  halted = "no" =>
    LET m == tbd_garbage_merge(tbd)
    IN Returns(m) =>
         \A i \in Live(tbd) :
           /\ Layout(m.t.slots[i]) = Layout(tbd.slots[i])
           /\ m.t.slots[i].g = tbd.slots[i].g
           /\ HunkBytes(m.t.mem, m.t.slots[i]) = HunkBytes(tbd.mem, tbd.slots[i])

\* A state with a live descriptor in which Merge coalesces two hunks.
C9_Witness ==
  halted = "no" /\ Live(tbd) # {} /\ Returns(tbd_garbage_merge(tbd))
    /\ tbd_garbage_merge(tbd).r > 0

\* C10: Merge coalesces contiguous garbage.  Whenever two descriptors in
\* adjacent stack slots are both garbage and their hunks are contiguous in the
\* heap, in either stack order, Merge returns and has emptied one of the two
\* hunks into a neighbour.
C10_MergeCoalesces ==
  halted = "no" =>
    \A i \in 1..(tbd.count - 1) :
      LET a == tbd.slots[i]
          b == tbd.slots[i + 1]
          m == tbd_garbage_merge(tbd)
      IN (/\ a.g /\ b.g /\ a.size > 0 /\ b.size > 0
          /\ (tbd_heap_end(a) = b.top \/ tbd_heap_end(b) = a.top))
         => /\ Returns(m)
            /\ m.t.slots[i].size = 0 \/ m.t.slots[i + 1].size = 0

\* C11: GarbageSize is non-increasing under the collector.  In every reachable
\* state (where GarbageSize returns) and for every limit, GarbageSize after
\* Pop, Merge, Fold, Pack, Collect or Clean is defined and at most its value
\* before the call.
C11_GarbageSizeNonIncreasing ==
  LET NotAbove(res) ==
        Returns(res) => /\ ~GarbageHangs(res.t)
                        /\ tbd_garbage_size(res.t) <= tbd_garbage_size(tbd)
  IN (halted = "no" /\ ~GarbageHangs(tbd)) =>
       /\ \A limit \in ProbeLimits(tbd) :
            /\ NotAbove(tbd_garbage_pop(tbd, limit))
            /\ NotAbove(tbd_garbage_fold(tbd, limit))
            /\ NotAbove(tbd_garbage_pack(tbd, limit))
            /\ NotAbove(tbd_garbage_collect(tbd, limit))
       /\ NotAbove(tbd_garbage_merge(tbd))
       /\ NotAbove(tbd_garbage_clean(tbd))

\* C12: Delete is idempotent and total.  In every reachable state and for
\* every key, Delete returns Ok whether or not the key is live; a second
\* Delete of the key returns Ok and changes nothing, and after the Delete a
\* Read of the key, with any size, returns KeyNotFound.
C12_DeleteIdempotent ==
  halted = "no" =>
    \A k \in Keys :
      LET d1 == tbd_delete(tbd, k)
          d2 == tbd_delete(d1.t, k)
      IN /\ Sound(d1) /\ d1.r = TBD_NO_ERROR
         /\ Sound(d2) /\ d2.r = TBD_NO_ERROR
         /\ d2.t = d1.t
         /\ \A n \in 1..MaxValueSize :
              LET rd == tbd_read(d1.t, k, n)
              IN Sound(rd) /\ rd.r = TBD_ERROR_KEY_NOT_FOUND

\* C13: Update then Read.  Where key k is live with a value of n bytes, an
\* Update of k with any n bytes returns Ok and overwrites the value in place,
\* no descriptor and no heap counter changing; a following Read of k with
\* size n returns Ok with the new bytes, and a Read of any other key returns
\* what it returned before the Update.
C13_UpdateThenRead ==
  halted = "no" =>
    \A k \in LiveKeys(tbd), v \in Values \cup ByteValues :
      LET u == tbd_update(tbd, k, v)
      IN Len(v) = tbd_read_size(tbd, k).r =>
           /\ Sound(u) /\ u.r = TBD_NO_ERROR
           /\ u.t.slots = tbd.slots
           /\ u.t.count = tbd.count
           /\ u.t.heap_top = tbd.heap_top
           /\ u.t.heap_size = tbd.heap_size
           /\ ReadsOk(u.t, k, v)
           /\ \A k2 \in Keys \ {k}, n \in 1..MaxValueSize :
                LET before == tbd_read(tbd, k2, n)
                    after == tbd_read(u.t, k2, n)
                IN after.r = before.r /\ after.out = before.out

\* C14: a duplicate Create is rejected without effect.  Where key k is live,
\* Create of k returns KeyExists for every value, and Count, SizeUsed, the
\* heap top, GarbageSize and what a Read of any key returns are unchanged.
C14_DuplicateCreateRejected ==
  halted = "no" =>
    \A k \in LiveKeys(tbd), v \in Values \cup ByteValues :
      LET c == tbd_create(tbd, k, v)
      IN /\ Sound(c) /\ c.r = TBD_ERROR_KEY_EXISTS
         /\ tbd_count(c.t) = tbd_count(tbd)
         /\ tbd_size_used(c.t) = tbd_size_used(tbd)
         /\ c.t.heap_top = tbd.heap_top
         /\ tbd_garbage_size(c.t) = tbd_garbage_size(tbd)
         /\ \A k2 \in Keys, n \in 1..MaxValueSize :
              LET before == tbd_read(tbd, k2, n)
                  after == tbd_read(c.t, k2, n)
              IN after.r = before.r /\ after.out = before.out

\* A descriptor of the stack is live and holds this key.
IsLive(t, key) ==
  \E i \in 1..t.count :
    /\ ~t.slots[i].g
    /\ HasEnd(t.mem, t.slots[i].key)
    /\ StrAt(t.mem, t.slots[i].key) = key

\* C15: Update error outcomes.  Update returns KeyNotFound where the key is
\* not live and BadSize where it is live with a stored value size other than
\* the one given; in both cases no stored byte, no descriptor field and no
\* counter changes.
C15_UpdateErrors ==
  halted = "no" =>
    \A k \in Keys, v \in Values \cup ByteValues :
      LET u == tbd_update(tbd, k, v)
          unchanged == /\ u.t.mem = tbd.mem
                       /\ u.t.slots = tbd.slots
                       /\ u.t.count = tbd.count
                       /\ u.t.heap_top = tbd.heap_top
                       /\ u.t.heap_size = tbd.heap_size
                       /\ u.t.front = tbd.front
                       /\ u.t.back = tbd.back
      IN /\ ~IsLive(tbd, k)
            => Sound(u) /\ u.r = TBD_ERROR_KEY_NOT_FOUND /\ unchanged
         /\ (IsLive(tbd, k) /\ tbd_read_size(tbd, k).r # Len(v))
            => Sound(u) /\ u.r = TBD_ERROR_BAD_SIZE /\ unchanged

\* C16: Read error outcomes.  Read returns KeyNotFound where the key is not
\* live and BadSize where it is live with a stored value size other than the
\* one given, the caller's buffer not written in both cases; otherwise it
\* returns Ok with exactly the n stored bytes.  Read never changes stored
\* data.
C16_ReadOutcomes ==
  halted = "no" =>
    \A k \in Keys, n \in 1..MaxValueSize :
      LET rd == tbd_read(tbd, k, n)
          d == tbd.slots[tbd_find_keyvalue(tbd, k).p]
      IN /\ Sound(rd)
         /\ rd.t.mem = tbd.mem /\ rd.t.slots = tbd.slots
         /\ ~IsLive(tbd, k) => rd.r = TBD_ERROR_KEY_NOT_FOUND /\ rd.out = <<>>
         /\ (IsLive(tbd, k) /\ tbd_read_size(tbd, k).r # n)
            => rd.r = TBD_ERROR_BAD_SIZE /\ rd.out = <<>>
         /\ (IsLive(tbd, k) /\ tbd_read_size(tbd, k).r = n)
            => rd.r = TBD_NO_ERROR /\ rd.out = BytesAt(tbd.mem, d.val, n)

\* C17: a capacity error is fully rolled back.  Whenever Create returns Error
\* because the new descriptor and its hunk do not fit, the stack count, the
\* heap top, the heap size, the garbage list (its ends, and the flag and the
\* links of every descriptor) and what a Read of any key returns are exactly
\* as before the call.
C17_CapacityErrorRolledBack ==
  halted = "no" =>
    \A k \in Keys, v \in Values \cup ByteValues :
      LET c == tbd_create(tbd, k, v)
      IN (Returns(c) /\ c.r = TBD_ERROR) =>
           /\ c.t.count = tbd.count
           /\ c.t.heap_top = tbd.heap_top
           /\ c.t.heap_size = tbd.heap_size
           /\ c.t.front = tbd.front /\ c.t.back = tbd.back
           /\ c.t.slots = tbd.slots
           /\ \A k2 \in Keys, n \in 1..MaxValueSize :
                LET before == tbd_read(tbd, k2, n)
                    after == tbd_read(c.t, k2, n)
                IN after.r = before.r /\ after.out = before.out

\* A Create is refused for lack of room on an arena that holds a live key and
\* listed garbage.
C17_Witness ==
  /\ halted = "no"
  /\ Live(tbd) # {}
  /\ tbd.front # NULL
  /\ \E k \in Keys, v \in Values : tbd_create(tbd, k, v).r = TBD_ERROR

\* C18: the descriptor stack and the heap never overlap.  In every state the
\* program reaches through Create, Read, ReadSize, Update, Delete, Pop, Merge,
\* Fold, Pack, Collect, Clean, the sorts and Empty, the end address of the
\* descriptor stack, StackStart + count * KvSize, is at most heap_top; the same
\* holds after every Create that returns, and a Create that returns NoError
\* although the new hunk would reach into the new descriptor has pushed
\* neither of them.
C18_StackBelowHeap ==
  halted = "no" =>
    /\ SlotEnd(tbd.count) <= tbd.heap_top
    /\ \A k \in Keys, v \in Values \cup ByteValues :
         LET c == tbd_create(tbd, k, v)
             hunk_size == tbd_keyvalue_hunk_size(tbd, Len(k) + 1, Len(v))
         IN Returns(c) =>
              /\ SlotEnd(c.t.count) <= c.t.heap_top
              /\ (c.r = TBD_NO_ERROR /\ tbd.heap_top - hunk_size < SlotEnd(tbd.count + 1))
                   => (c.t.count = tbd.count /\ c.t.heap_top = tbd.heap_top)

\* A descriptor slot is free, the hunk of the new key would reach into it, and
\* Create returns Error.
C18_Witness ==
  /\ halted = "no"
  /\ tbd.count > 0
  /\ tbd.count < NSlots
  /\ \E k \in Keys, v \in Values :
       LET c == tbd_create(tbd, k, v)
       IN /\ Returns(c)
          /\ c.r = TBD_ERROR
          /\ tbd.heap_top - tbd_keyvalue_hunk_size(tbd, Len(k) + 1, Len(v))
               < SlotEnd(tbd.count + 1)

\* C19: the used size never exceeds the size of the arena.  In every state
\* reached from tbd_init by the public operations,
\* tbd_size_used = sizeof(tbd_t) + stack.count * sizeof(tbd_keyvalue_t) +
\* heap.size is at most tbd_size.
C19_SizeUsedWithinSize ==
  halted = "no" => tbd_size_used(tbd) <= tbd_size(tbd)

\* The arena is full: every descriptor slot is taken and less than the
\* smallest hunk is left.
C19_Witness ==
  /\ halted = "no"
  /\ tbd.count = NSlots
  /\ tbd_size(tbd) - tbd_size_used(tbd) < 2 + HunkSize

\* C20: hunks stay inside the arena and disjoint.  In every reachable state
\* and after every public operation that returns from it, the hunk
\* [heap.top, heap.top + heap.size) of every live descriptor lies above the
\* descriptor stack and below the end of the buffer, and shares no byte with
\* the hunk of any other descriptor on the stack.
C20_HunksInsideAndDisjoint ==
  LET Apart(d, e) ==
        \/ d.size = 0
        \/ e.size = 0
        \/ tbd_heap_end(d) <= e.top
        \/ tbd_heap_end(e) <= d.top
      HunksOk(t) ==
        \A i \in Live(t) :
          /\ SlotEnd(t.count) <= t.slots[i].top
          /\ tbd_heap_end(t.slots[i]) <= tbd_size(t)
          /\ \A j \in (1..t.count) \ {i} : Apart(t.slots[i], t.slots[j])
      After(res) == Returns(res) => HunksOk(res.t)
  IN halted = "no" =>
       /\ HunksOk(tbd)
       /\ \A k \in Keys, v \in UpdateValues :
            /\ After(tbd_create(tbd, k, v))
            /\ After(tbd_update(tbd, k, v))
       /\ \A k \in Keys : After(tbd_delete(tbd, k))
       /\ \A limit \in ProbeLimits(tbd) :
            /\ After(tbd_garbage_pop(tbd, limit))
            /\ After(tbd_garbage_fold(tbd, limit))
            /\ After(tbd_garbage_pack(tbd, limit))
            /\ After(tbd_garbage_collect(tbd, limit))
       /\ After(tbd_garbage_merge(tbd))
       /\ After(tbd_garbage_clean(tbd))
       /\ After(tbd_sort_by_heap(tbd))
       /\ After(tbd_sort_by_key(tbd))
       /\ After(tbd_empty(tbd))

\* C21: live data fits in its own hunk.  In every reachable state, and after
\* the first Create on an arena initialised with any hunk_size of at least 1,
\* every live descriptor has value.data = heap.top and
\* key.str = heap.top + value size, and strlen(key) + 1 + value size is at
\* most heap.size.
C21_LiveDataInOwnHunk ==
  LET Fits(t) ==
        \A i \in Live(t) :
          /\ t.slots[i].val = t.slots[i].top
          /\ HasEnd(t.mem, t.slots[i].val)
          /\ HasEnd(t.mem, t.slots[i].key)
          /\ t.slots[i].key = t.slots[i].top + tbd_value_size(t.mem, t.slots[i])
          /\ strlen(t.mem, t.slots[i].key) + 1 + tbd_value_size(t.mem, t.slots[i])
               <= t.slots[i].size
  IN halted = "no" =>
       /\ Fits(tbd)
       /\ \A hunk_size \in 1..(HunkSize + 1), k \in Keys, v \in Values :
            LET c == tbd_create(tbd_init(ArenaSize, hunk_size), k, v)
            IN (Returns(c) /\ c.r = TBD_NO_ERROR) => Fits(c.t)

C23_GarbageListIntegrity ==
  LET listed == GarbageListed(tbd.slots, tbd.front, NSlots)
  IN halted = "no" =>
       /\ ~GarbageHangs(tbd)
       /\ \A a \in 1..Len(listed), b \in 1..Len(listed) :
            a # b => listed[a] # listed[b]
       /\ {listed[a] : a \in 1..Len(listed)}
            = {i \in 1..tbd.count : tbd.slots[i].g}

\* C24: last_found validity.  In every reachable state last_found is NULL or
\* points to a descriptor inside the stack that is live and has a key string.
\* (That the key is the one looked up last needs the history of the calls; the
\* statement here is the part of the claim every state can be asked for.)
C24_LastFoundValid ==
  halted = "no" =>
    \/ tbd.last_found = NULL
    \/ /\ tbd.last_found \in 1..tbd.count
       /\ ~tbd.slots[tbd.last_found].g
       /\ HasEnd(tbd.mem, tbd.slots[tbd.last_found].key)

\* C25: Collect respects its limit.  In every reachable state and for every
\* limit, a Collect that returns returns at most limit; it returns 0 and
\* changes nothing when the limit is 0 or no garbage is listed; it returns a
\* positive value when the newest descriptor is garbage and the limit is at
\* least the garbage size; and it is the Pop alone once the Pop has reclaimed
\* limit bytes or more.
C25_CollectRespectsLimit ==
  halted = "no" =>
    \A limit \in ProbeLimits(tbd) :
      LET c == tbd_garbage_collect(tbd, limit)
          pop == tbd_garbage_pop(tbd, limit)
      IN Returns(c) =>
           /\ c.r <= limit
           /\ (limit = 0 \/ tbd_garbage_size(tbd) = 0) => (c.r = 0 /\ c.t = tbd)
           /\ (/\ tbd.count > 0
               /\ tbd.slots[tbd.count].g
               /\ tbd_garbage_size(tbd) > 0
               /\ limit >= tbd_garbage_size(tbd)) => c.r > 0
           /\ (limit > 0 /\ tbd_garbage_size(tbd) > 0 /\ pop.r >= limit)
                => (c.r = pop.r /\ c.t = pop.t)

\* C26: tbd_init validates its arguments.  The arena the program starts with
\* has its size, an empty stack, heap.top at the end of the buffer, heap.size
\* 0, an empty garbage list and no last_found; and for every size and
\* hunk_size, tbd_init returns no arena when size is below the size of the
\* header or hunk_size is 0, and an arena with those fields otherwise.
C26_InitValidates ==
  LET Fresh(t, size, hunk_size) ==
        /\ tbd_size(t) = size
        /\ t.hunk_size = hunk_size
        /\ tbd_count(t) = 0
        /\ t.heap_top = size
        /\ t.heap_size = 0
        /\ t.front = NULL
        /\ t.back = NULL
        /\ t.last_found = NULL
  IN /\ (calls = 0 /\ halted = "no") => Fresh(tbd, ArenaSize, HunkSize)
     /\ \A size \in {0, HeadSize - 1, HeadSize, ArenaSize},
           hunk_size \in 0..(HunkSize + 1) :
          IF size < HeadSize \/ hunk_size = 0 THEN ~InitReturns(size, hunk_size)
          ELSE /\ InitReturns(size, hunk_size)
               /\ Fresh(tbd_init(size, hunk_size), size, hunk_size)

\* C27: Clear resets to the state after tbd_init.  In every reachable state,
\* stack.start, stack.count, heap.top, heap.size, the garbage list and
\* last_found after tbd_clear are those tbd_init produced for this arena.
C27_ClearResetsToInit ==
  halted = "no" => tbd_clear(tbd) = Header(tbd_init(tbd.size, tbd.hunk_size))

\* C28: Empty empties the namespace.  In every reachable state tbd_empty
\* returns and leaves tbd_count 0, tbd_is_empty true, tbd_garbage_size 0 and
\* tbd_garbage_count 0, and then tbd_read, with every size, reports every key
\* as not found and tbd_read_size reports size 0 for it.
C28_EmptyEmptiesNamespace ==
  halted = "no" =>
    LET e == tbd_empty(tbd)
    IN /\ Sound(e)
       /\ tbd_count(e.t) = 0
       /\ tbd_is_empty(e.t)
       /\ ~GarbageHangs(e.t)
       /\ tbd_garbage_size(e.t) = 0
       /\ tbd_garbage_count(e.t) = 0
       /\ \A k \in Keys :
            /\ Sound(tbd_read_size(e.t, k))
            /\ tbd_read_size(e.t, k).r = 0
            /\ \A n \in 1..MaxValueSize :
                 /\ Sound(tbd_read(e.t, k, n))
                 /\ tbd_read(e.t, k, n).r = TBD_ERROR_KEY_NOT_FOUND

\* The arena Empty is called on holds a live key and listed garbage.
C28_Witness ==
  /\ halted = "no"
  /\ LiveKeys(tbd) # {}
  /\ tbd_garbage_count(tbd) > 0
  /\ tbd_count(tbd_empty(tbd).t) = 0

\* C29: fill to capacity.  A state in which stack.count equals the number of
\* calls made was reached from the empty arena by successful Creates of
\* pairwise distinct keys alone.  In every such state a Create of a further
\* key returns NoError and leaves tbd_count one higher, or returns Error and
\* leaves tbd_count as it is; the count never passes the number of
\* descriptors that fit, and once that many keys are stored Create returns
\* Error.
C29_FillToCapacity ==
  (halted = "no" /\ tbd_count(tbd) = calls) =>
    /\ tbd_count(tbd) <= NSlots
    /\ \A k \in (Keys \cup {<<NSlots + 1>>}) \ LiveKeys(tbd), v \in Values :
         LET c == tbd_create(tbd, k, v)
         IN /\ Sound(c)
            /\ c.r \in {TBD_NO_ERROR, TBD_ERROR}
            /\ c.r = TBD_NO_ERROR => tbd_count(c.t) = calls + 1
            /\ c.r = TBD_ERROR => tbd_count(c.t) = calls
            /\ tbd_count(tbd) = NSlots => c.r = TBD_ERROR

\* Three Creates succeeded and filled every descriptor slot.
C29_Witness ==
  /\ halted = "no"
  /\ tbd_count(tbd) = calls
  /\ calls = NSlots
  /\ \A k \in Keys : tbd_find_keyvalue(tbd, k).p # NULL

\* C30: sorting preserves content.  In every reachable state tbd_sort_by_key
\* and tbd_sort_by_heap return NoError, leave the descriptors of the stack a
\* permutation of what they were, and leave the result of every Read, the
\* garbage size and the garbage count unchanged.
C30_SortPreservesContent ==
  LET Same(s) ==
        /\ Sound(s)
        /\ s.r = TBD_NO_ERROR
        /\ s.t.count = tbd.count
        /\ \A i \in 1..tbd.count :
             Cardinality({j \in 1..tbd.count : s.t.slots[j] = tbd.slots[i]})
               = Cardinality({j \in 1..tbd.count : tbd.slots[j] = tbd.slots[i]})
        /\ GarbageHangs(s.t) = GarbageHangs(tbd)
        /\ GarbageHangs(tbd) \/
             /\ tbd_garbage_size(s.t) = tbd_garbage_size(tbd)
             /\ tbd_garbage_count(s.t) = tbd_garbage_count(tbd)
        /\ \A k \in Keys, n \in 1..MaxValueSize :
             /\ tbd_read(s.t, k, n).r = tbd_read(tbd, k, n).r
             /\ tbd_read(s.t, k, n).out = tbd_read(tbd, k, n).out
  IN halted = "no" =>
       /\ Same(tbd_sort_by_key(tbd))
       /\ Same(tbd_sort_by_heap(tbd))

\* C31: every public operation terminates.  In every reachable state each
\* call of Create, Read, Update, Delete, GarbageSize, GarbageCount, Pop,
\* Merge, Fold, Pack, Collect, Clean, SortByKey and SortByHeap comes to an
\* end, and so does the walk of the garbage list that tbd_garbage_size and
\* tbd_garbage_count make on the arena the call leaves: no walk meets a
\* descriptor twice and the bubble sorts reach a pass without a swap.
C31_OperationsTerminate ==
  LET Ends(res) == ~res.hang /\ (Returns(res) => ~GarbageHangs(res.t))
  IN halted = "no" =>
       /\ ~GarbageHangs(tbd)
       /\ \A k \in Keys, v \in UpdateValues :
            /\ Ends(tbd_create(tbd, k, v))
            /\ Ends(tbd_update(tbd, k, v))
       /\ \A k \in Keys :
            /\ Ends(tbd_delete(tbd, k))
            /\ \A n \in 1..MaxValueSize : Ends(tbd_read(tbd, k, n))
       /\ \A limit \in ProbeLimits(tbd) :
            /\ Ends(tbd_garbage_pop(tbd, limit))
            /\ Ends(tbd_garbage_fold(tbd, limit))
            /\ Ends(tbd_garbage_pack(tbd, limit))
            /\ Ends(tbd_garbage_collect(tbd, limit))
       /\ Ends(tbd_garbage_merge(tbd))
       /\ Ends(tbd_garbage_clean(tbd))
       /\ Ends(tbd_sort_by_heap(tbd))
       /\ Ends(tbd_sort_by_key(tbd))

\* C32: hunk size computation.  The hunk a Create that returns NoError
\* reserves for key k and a value of n bytes on an arena with hunk_size h
\* has ceil((strlen(k) + 1 + n) / h) * h bytes: a multiple of h that is at
\* least h, at least strlen(k) + 1 + n and less than strlen(k) + 1 + n + h.
\* It is asked of every Create in every reachable state, and of the first
\* Create on an arena initialised with each hunk_size from 1 to 3.
C32_HunkSizeIsCeiling ==
  LET Ceiling(n, h) == ((n + h - 1) \div h) * h
      Reserved(t, k, v) ==
        LET c == tbd_create(t, k, v)
            kv == tbd_find_keyvalue(c.t, k).p
            need == Len(k) + 1 + Len(v)
        IN (Returns(c) /\ c.r = TBD_NO_ERROR) =>
             /\ kv # NULL
             /\ c.t.slots[kv].size = Ceiling(need, t.hunk_size)
             /\ c.t.slots[kv].size % t.hunk_size = 0
             /\ c.t.slots[kv].size >= t.hunk_size
             /\ c.t.slots[kv].size >= need
             /\ c.t.slots[kv].size < need + t.hunk_size
  IN halted = "no" =>
       /\ \A k \in Keys, v \in Values : Reserved(tbd, k, v)
       /\ \A hunk_size \in 1..(HunkSize + 2), k \in Keys, v \in Values :
            Reserved(tbd_init(ArenaSize, hunk_size), k, v)

\* C33: recycle path.  In every reachable state, and in the arena a Fold
\* leaves there, a Create that returns NoError
\* reuses a garbage descriptor exactly when some garbage descriptor of the
\* stack has a hunk of the size the Create needs.  It then takes the oldest
\* such descriptor, takes that descriptor and no other out of the garbage
\* list, clears its garbage flag, keeps its hunk, and leaves stack.count,
\* heap.top and tbd_size_used as they are.  Otherwise it pushes one
\* descriptor and lowers heap.top by the size of the hunk.
C33_RecyclePath ==
  LET Without(seq, b) == SelectSeq(seq, LAMBDA x : x # b)
      Recycles(t, k, v) ==
        LET c == tbd_create(t, k, v)
            hunk == tbd_keyvalue_hunk_size(t, Len(k) + 1, Len(v))
            fit == {i \in 1..t.count : t.slots[i].g /\ t.slots[i].size = hunk}
            b == CHOOSE i \in fit : \A j \in fit : i <= j
        IN (Returns(c) /\ c.r = TBD_NO_ERROR) =>
             IF fit # {}
             THEN /\ ~c.t.slots[b].g
                  /\ c.t.slots[b].top = t.slots[b].top
                  /\ c.t.slots[b].size = t.slots[b].size
                  /\ \A i \in (1..t.count) \ {b} : c.t.slots[i].g = t.slots[i].g
                  /\ GarbageListed(c.t.slots, c.t.front, NSlots)
                       = Without(GarbageListed(t.slots, t.front, NSlots), b)
                  /\ tbd_count(c.t) = tbd_count(t)
                  /\ c.t.heap_top = t.heap_top
                  /\ tbd_size_used(c.t) = tbd_size_used(t)
             ELSE /\ tbd_count(c.t) = tbd_count(t) + 1
                  /\ c.t.heap_top = t.heap_top - hunk
                  /\ \A i \in 1..t.count : c.t.slots[i].g = t.slots[i].g
                  /\ GarbageListed(c.t.slots, c.t.front, NSlots)
                       = GarbageListed(t.slots, t.front, NSlots)
  IN halted = "no" =>
       \A k \in Keys, v \in Values :
         /\ Recycles(tbd, k, v)
         /\ \A limit \in Limits(tbd) :
              LET f == tbd_garbage_fold(tbd, limit)
              IN Returns(f) => Recycles(f.t, k, v)

\* C34: fold step.  In every reachable state and for every limit, a Fold that
\* returns does nothing undefined, returns at most limit, returns 0 and
\* changes nothing when limit is 0 or no garbage is listed, and leaves the
\* number of live and the number of garbage descriptors as they were.  Every
\* descriptor that was garbage and is live afterwards keeps its hunk, has its
\* key and value pointers inside that hunk, and holds the key and the value
\* of one descriptor that was live, had a hunk of the same size and is
\* garbage afterwards.
C34_FoldStep ==
  LET Garbage(t) == (1..t.count) \ Live(t)
      Inside(d, p) == d.top <= p /\ p < tbd_heap_end(d)
      Absorbed(t, t2, g) ==
        /\ t2.slots[g].top = t.slots[g].top
        /\ t2.slots[g].size = t.slots[g].size
        /\ Inside(t2.slots[g], t2.slots[g].key)
        /\ Inside(t2.slots[g], t2.slots[g].val)
        /\ \E s \in Live(t) \cap Garbage(t2) :
             /\ t.slots[s].size = t.slots[g].size
             /\ HasEnd(t.mem, t.slots[s].key)
             /\ HasEnd(t2.mem, t2.slots[g].key)
             /\ StrAt(t2.mem, t2.slots[g].key) = StrAt(t.mem, t.slots[s].key)
             /\ StoredSize(t2.mem, t2.slots[g]) = StoredSize(t.mem, t.slots[s])
             /\ BytesAt(t2.mem, t2.slots[g].val, StoredSize(t.mem, t.slots[s]))
                  = BytesAt(t.mem, t.slots[s].val, StoredSize(t.mem, t.slots[s]))
  IN halted = "no" =>
       \A limit \in ProbeLimits(tbd) :
         LET f == tbd_garbage_fold(tbd, limit)
         IN Returns(f) =>
              /\ ~f.ub
              /\ f.r <= limit
              /\ (limit = 0 \/ tbd_garbage_size(tbd) = 0) => (f.r = 0 /\ f.t = tbd)
              /\ f.t.count = tbd.count
              /\ Cardinality(Live(f.t)) = Cardinality(Live(tbd))
              /\ Cardinality(Garbage(f.t)) = Cardinality(Garbage(tbd))
              /\ \A g \in Garbage(tbd) \cap Live(f.t) : Absorbed(tbd, f.t, g)

\* C35: pack step.  In every reachable state, for every pair of adjacent
\* stack slots with the lower one (dest) garbage and the one above it (src)
\* live, one step of the pack does nothing undefined and leaves dest live
\* with a hunk of the size of the hunk src had, made of the highest bytes of
\* the hunk dest had; the key and value pointers of dest lie inside that hunk
\* and its key and value are those src had; src is garbage with a hunk of the
\* size dest had; the sum of the two hunk sizes and the bytes the two hunks
\* cover are unchanged.
C35_PackStep ==
  LET Range(d) == d.top..(tbd_heap_end(d) - 1)
      Packed(dest, src) ==
        LET st == PackStep(Result(tbd, 0, FALSE), dest, src)
            d == tbd.slots[dest]
            s == tbd.slots[src]
            d2 == st.t.slots[dest]
            s2 == st.t.slots[src]
        IN ~st.hang =>
             /\ ~st.ub
             /\ ~d2.g
             /\ d2.size = s.size
             /\ d2.top = tbd_heap_end(d) - s.size
             /\ d2.key \in Range(d2)
             /\ d2.val \in Range(d2)
             /\ HasEnd(st.t.mem, d2.key)
             /\ HasEnd(tbd.mem, s.key)
             /\ StrAt(st.t.mem, d2.key) = StrAt(tbd.mem, s.key)
             /\ StoredSize(st.t.mem, d2) = StoredSize(tbd.mem, s)
             /\ BytesAt(st.t.mem, d2.val, StoredSize(tbd.mem, s))
                  = BytesAt(tbd.mem, s.val, StoredSize(tbd.mem, s))
             /\ s2.g
             /\ s2.size = d.size
             /\ d2.size + s2.size = d.size + s.size
             /\ Range(d2) \cup Range(s2) = Range(d) \cup Range(s)
  IN halted = "no" =>
       \A src \in 2..tbd.count :
         (tbd.slots[src - 1].g /\ ~tbd.slots[src].g) => Packed(src - 1, src)

\* C36: Pop stops only at a live top or an empty stack when the limit does
\* not bind.  In every reachable state whose garbage list can be walked, and
\* for every limit of at least tbd_garbage_size, a Pop that returns leaves
\* the stack empty or its newest descriptor live.
C36_PopLeavesNoGarbageOnTop ==
  (halted = "no" /\ ~GarbageHangs(tbd)) =>
    \A limit \in {n \in ProbeLimits(tbd) : n >= tbd_garbage_size(tbd)} :
      LET p == tbd_garbage_pop(tbd, limit)
      IN Returns(p) =>
           \/ tbd_count(p.t) = 0
           \/ ~p.t.slots[tbd_count(p.t)].g

\* C37: Count is the number of stored key-value pairs.  In every reachable
\* state tbd_count equals the number of keys tbd_read does not report as not
\* found, tbd_is_empty holds exactly when no key is found, and a Delete of a
\* key that is found lowers tbd_count by one.
C37_CountIsNumberOfPairs ==
  LET Found(t) ==
        {k \in Keys : tbd_read(t, k, HunkSize).r # TBD_ERROR_KEY_NOT_FOUND}
  IN halted = "no" =>
       /\ tbd_count(tbd) = Cardinality(Found(tbd))
       /\ tbd_is_empty(tbd) <=> Found(tbd) = {}
       /\ \A k \in Found(tbd) :
            LET d == tbd_delete(tbd, k)
            IN Returns(d) => tbd_count(d.t) = tbd_count(tbd) - 1

\* C38: heap accounting.  In every reachable state heap.size of the arena is
\* the sum of heap.size over the descriptors of the stack, live and garbage;
\* stack.count * sizeof(tbd_keyvalue_t) plus that sum plus sizeof(tbd_t) is at
\* most the size of the arena; and every byte of the heap in use, from
\* heap.top up, lies in the hunk of exactly one descriptor of the stack.
C38_HeapAccounting ==
  LET Owners(a) ==
        {i \in 1..tbd.count :
           tbd.slots[i].top <= a /\ a < tbd_heap_end(tbd.slots[i])}
      hunks == KeyvalueSizes(tbd, 1, tbd.count) - tbd.count * KvSize
  IN halted = "no" =>
       /\ tbd.heap_size = hunks
       /\ tbd.count * KvSize + hunks + HeadSize <= tbd_size(tbd)
       /\ \A a \in tbd.heap_top..(tbd.heap_top + tbd.heap_size - 1) :
            Cardinality(Owners(a)) = 1

\* C39: Empty restores full capacity.  In every reachable state heap.top is
\* the end of the buffer less heap.size; after tbd_empty heap.top is the end
\* of the buffer; and a Create that returns NoError on a freshly initialised
\* arena returns NoError on the arena tbd_empty leaves, be it the arena
\* reached or an arena with room for one descriptor and less than two hunks
\* on which one Create was made.
C39_EmptyRestoresCapacity ==
  LET e == tbd_empty(tbd)
      Restored(fresh, used) ==
        \A k \in Keys, v \in Values :
          tbd_create(fresh, k, v).r = TBD_NO_ERROR
            => tbd_create(tbd_empty(used).t, k, v).r = TBD_NO_ERROR
      small == tbd_init(SlotEnd(1) + 2 * MaxHunk - 1, HunkSize)
  IN halted = "no" =>
       /\ tbd.heap_top = tbd_size(tbd) - tbd.heap_size
       /\ Returns(e) /\ e.t.heap_top = tbd_size(tbd)
       /\ Restored(tbd_init(tbd_size(tbd), tbd.hunk_size), tbd)
       /\ \A k \in Keys, v \in Values :
            Restored(small, tbd_create(small, k, v).t)

\* C40: the last_found cache is transparent.  In every reachable state and for
\* every key, tbd_find_keyvalue returns what the top-down scan over the live
\* descriptors of the stack returns, the same descriptor or NULL; and the
\* descriptor last_found points to, which the lookup reads on a stack that is
\* not empty, lies inside the stack and, unless it is garbage, has a key
\* pointer that is not NULL.
C40_LastFoundTransparent ==
  halted = "no" =>
    /\ \A k \in Keys : tbd_find_keyvalue(tbd, k).p = ScanHit(tbd, k)
    /\ (~tbd_is_empty(tbd) /\ tbd.last_found # NULL) =>
         /\ tbd.last_found \in 1..tbd.count
         /\ ~tbd.slots[tbd.last_found].g => tbd.slots[tbd.last_found].key # NULL

====
